---- MODULE Spec2Model ----
(***************************************************************************)
(* Model of the PowerPoint generator: the Streamlit form (app.py) and the  *)
(* content-to-deck pipeline (ppt_generator.py).                            *)
(*                                                                         *)
(* Python strings are sequences of one-character strings, so that strip,   *)
(* replace, split, find and lower are computed as the code computes them.  *)
(* JSON values are tagged records [t |-> kind, v |-> value]; a JSON object *)
(* is a TLA+ record whose DOMAIN is the set of keys that are present.      *)
(***************************************************************************)
EXTENDS Integers, Sequences, FiniteSets, TLC

VARIABLES
    topic,                  \* value of the "Presentation Topic" text input
    api_key,                \* value of the "API Key" text input
    content_sections,       \* st.session_state.content_sections (= the section inputs)
    presentation_generated, \* st.session_state.presentation_generated
    generating,             \* st.session_state.generating
    generated_file_path,    \* st.session_state.generated_file_path
    submit_disabled,        \* disabled= of the submit button as last rendered
    reset_shown,            \* the "Create New Presentation" button is rendered
    error_shown,            \* st.error was called in the last script run
    pc,                     \* position of the script run
    output_filename,        \* local of generate_presentation
    llm,                    \* outcome of the chat-completion call of this run
    presentation_data,      \* value returned by generate_presentation_content
    slide_i,                \* loop index of create_powerpoint
    doc,                    \* presentation.slides of the document being built
    render_raised,          \* per descriptor: did create_slide raise
    temp_images,            \* temp image files of this run that still exist
    files,                  \* presentation files that exist on disk
    response,               \* response text under extraction
    payload,                \* the JSON object the response text carries
    extracted,              \* the string handed to json.loads
    stage                   \* position of the extraction

vars == <<topic, api_key, content_sections, presentation_generated, generating,
          generated_file_path, submit_disabled, reset_shown, error_shown, pc,
          output_filename, llm, presentation_data, slide_i, doc, render_raised,
          temp_images, files, response, payload, extracted, stage>>

formVars == <<topic, api_key, content_sections>>
runVars == <<output_filename, llm, presentation_data, slide_i, doc, render_raised,
             temp_images>>
extractVars == <<response, payload, extracted, stage>>

\* ------------------------------------------------------------------ bounds
MaxSections == 5      \* the slider is capped here (the code allows up to 10)
MaxLLMSlides == 2     \* longest slide list of a parsed LLM response
MaxInner == 3         \* characters between the braces of a payload

\* ------------------------------------------------------- program constants
MinSections == 3
MinTopicLen == 3
MinKeyLen == 10
NumColors == 4

\* ---------------------------------------------------------- Python strings
None == <<"<None>">>

Whitespace == {" ", "\n"}

RECURSIVE lstrip(_)
lstrip(s) ==
    IF s # <<>> /\ Head(s) \in Whitespace THEN lstrip(Tail(s)) ELSE s

RECURSIVE rstrip(_)
rstrip(s) ==
    IF s # <<>> /\ s[Len(s)] \in Whitespace
    THEN rstrip(SubSeq(s, 1, Len(s) - 1))
    ELSE s

strip(s) == rstrip(lstrip(s))

replace(s, old, new) == [i \in 1..Len(s) |-> IF s[i] = old THEN new ELSE s[i]]

UpperCase == <<"A", "C", "I", "K", "O", "S", "X">>
LowerCase == <<"a", "c", "i", "k", "o", "s", "x">>

lower_char(c) ==
    IF \E i \in 1..Len(UpperCase) : UpperCase[i] = c
    THEN LowerCase[CHOOSE i \in 1..Len(UpperCase) : UpperCase[i] = c]
    ELSE c

lower(s) == [i \in 1..Len(s) |-> lower_char(s[i])]

startswith(s, p) == Len(s) >= Len(p) /\ SubSeq(s, 1, Len(p)) = p

\* s.find(c): 0-based index of the first c, -1 when there is none
find(s, c) ==
    IF \E i \in 1..Len(s) : s[i] = c
    THEN (CHOOSE i \in 1..Len(s) : s[i] = c /\ \A j \in 1..(i - 1) : s[j] # c) - 1
    ELSE -1

\* s.rfind(c): 0-based index of the last c, -1 when there is none
rfind(s, c) ==
    IF \E i \in 1..Len(s) : s[i] = c
    THEN (CHOOSE i \in 1..Len(s) : s[i] = c /\ \A j \in (i + 1)..Len(s) : s[j] # c) - 1
    ELSE -1

\* s[a:b] for 0 <= a, 0 <= b
slice(s, a, b) == SubSeq(s, a + 1, IF b > Len(s) THEN Len(s) ELSE b)

\* 1-based position of the first occurrence of sep in s, 0 when there is none
first_occurrence(s, sep) ==
    LET hits == {i \in 1..(Len(s) - Len(sep) + 1) : SubSeq(s, i, i + Len(sep) - 1) = sep}
    IN IF hits = {} THEN 0 ELSE CHOOSE i \in hits : \A j \in hits : i <= j

\* s.split(sep)[0]
split_0(s, sep) ==
    LET p == first_occurrence(s, sep)
    IN IF p = 0 THEN s ELSE SubSeq(s, 1, p - 1)

\* s.split(sep)[1], for s that contains sep
split_1(s, sep) ==
    LET p == first_occurrence(s, sep)
    IN split_0(SubSeq(s, p + Len(sep), Len(s)), sep)

\* -------------------------------------------------------- JSON extraction
\* the backquote character (a string literal cannot hold it)
Backquote == "BACKQUOTE"

Fence == <<Backquote, Backquote, Backquote>>
FenceJson == Fence \o <<"j", "s", "o", "n">>

\* ppt_generator.py lines 89-100: the string handed to json.loads
clean_json(text) ==
    LET content == strip(text)
        unfenced ==
            IF startswith(content, FenceJson)
            THEN strip(split_0(split_1(content, FenceJson), Fence))
            ELSE IF startswith(content, Fence)
                 THEN strip(split_0(split_1(content, Fence), Fence))
                 ELSE content
        start_brace == find(unfenced, "{")
        end_brace == rfind(unfenced, "}")
    IN IF start_brace # -1 /\ end_brace # -1
       THEN slice(unfenced, start_brace, end_brace + 1)
       ELSE unfenced

\* ------------------------------------------------------------- JSON values
Obj(r) == [t |-> "obj", v |-> r]
List(l) == [t |-> "list", v |-> l]
Num(n) == [t |-> "num", v |-> <<n>>]
Str(s) == [t |-> "str", v |-> s]

\* dict.get(key, default)
Get(d, key, default) == IF key \in DOMAIN d THEN d[key] ELSE default

\* Python truth value of a JSON value
truthy(j) ==
    CASE j.t = "list" -> j.v # <<>>
      [] j.t = "str" -> j.v # <<>>
      [] j.t = "num" -> j.v # <<0>>
      [] OTHER -> TRUE

\* ------------------------------------------------------------ the fallback
FallbackColors == <<"white", "light_blue", "white", "gradient">>

FallbackSubtitle == <<"Comprehensive Professional Presentation">>
FallbackSummaryTitle == <<"Conclusion & Recommendations">>

FallbackSummaryContent ==
    << <<"Comprehensive review of all key concepts with supporting data">>,
       <<"Actionable 6-month implementation plan with milestones">>,
       <<"Strategic roadmap for long-term success and scalability">>,
       <<"Resource allocation and team requirements">>,
       <<"Q&A and next steps for immediate action">> >>

FallbackSectionContent(tp, content_name) ==
    << <<"Detailed analysis of ">> \o content_name \o <<": ">> \o tp
           \o <<" involves multiple components including strategic planning and execution frameworks">>,
       <<"Key features: Core elements include ">> \o lower(content_name)
           \o <<" methodology, implementation techniques, and performance metrics">>,
       <<"Practical example: Case study from Fortune 500 company showing 35% improvement using these methods">>,
       <<"Best practices: Industry-standard approaches for ">> \o lower(content_name)
           \o <<" with measurable results">>,
       <<"Current trends: 2024 data shows 42% adoption rate in top organizations with positive ROI">> >>

FallbackSectionSlide(tp, content_names, i) ==
    Obj([slide_type |-> "section",
         title |-> content_names[i],
         content |-> FallbackSectionContent(tp, content_names[i]),
         background_color |-> FallbackColors[((i - 1) % NumColors) + 1]])

\* a plausible slip: the summary slide is left out
FallbackWithoutSummary(tp, content_names) ==
    Obj([title |-> tp,
         slides |-> List(
             << Obj([slide_type |-> "title", title |-> tp,
                     subtitle |-> FallbackSubtitle, background_color |-> "blue"]) >>
             \o [i \in 1..Len(content_names) |-> FallbackSectionSlide(tp, content_names, i)])])

\* ppt_generator.py lines 113-151
_create_fallback_content(tp, content_names) ==
    Obj([title |-> tp,
         slides |-> List(
             << Obj([slide_type |-> "title", title |-> tp,
                     subtitle |-> FallbackSubtitle, background_color |-> "blue"]) >>
             \o [i \in 1..Len(content_names) |-> FallbackSectionSlide(tp, content_names, i)]
             \o << Obj([slide_type |-> "summary", title |-> FallbackSummaryTitle,
                        content |-> FallbackSummaryContent,
                        background_color |-> "blue"]) >>)])

\* ------------------------------------------------- content generation
\* The try block of generate_presentation_content (lines 72-107): the value it
\* returns, or the fact that it raised.
content_try(outcome) ==
    IF outcome.kind = "raise" THEN [exc |-> TRUE]            \* the API call raised
    ELSE IF outcome.kind = "not_json" THEN [exc |-> TRUE]    \* json.loads raised
    ELSE LET parsed_content == outcome.value
         IN IF parsed_content.t # "obj" THEN [exc |-> TRUE]  \* TypeError / ValueError
            ELSE IF "slides" \notin DOMAIN parsed_content.v
                    \/ ~truthy(parsed_content.v.slides)
                 THEN [exc |-> TRUE]                         \* ValueError, line 105
                 ELSE [exc |-> FALSE, value |-> parsed_content]

\* a plausible slip: the structural check is missing, the parsed value is
\* returned whenever the text parsed
ContentWithoutCheck(outcome, tp, content_names) ==
    IF outcome.kind = "json" /\ outcome.value.t = "obj"
    THEN [raised |-> FALSE, value |-> outcome.value]
    ELSE [raised |-> FALSE, value |-> _create_fallback_content(tp, content_names)]

\* ppt_generator.py lines 18-111: try, and the except that substitutes the fallback
generate_presentation_content(outcome, tp, content_names) ==
    LET r == content_try(outcome)
    IN IF r.exc
       THEN [raised |-> FALSE, value |-> _create_fallback_content(tp, content_names)]
       ELSE [raised |-> FALSE, value |-> r.value]

\* ---------------------------------------------------------------- rendering
White == <<255, 255, 255>>

\* a plausible slip: an unrecognized name gets the title slides' blue
BackgroundColorDefaultBlue(color_name) ==
    CASE color_name = "blue" -> <<0, 84, 147>>
      [] color_name = "light_blue" -> <<220, 240, 255>>
      [] color_name = "white" -> White
      [] color_name = "dark" -> <<34, 40, 49>>
      [] color_name = "gradient" -> <<240, 248, 255>>
      [] OTHER -> <<0, 84, 147>>

\* ppt_generator.py lines 168-177
get_background_color(color_name) ==
    CASE color_name = "blue" -> <<0, 84, 147>>
      [] color_name = "light_blue" -> <<220, 240, 255>>
      [] color_name = "white" -> White
      [] color_name = "dark" -> <<34, 40, 49>>
      [] color_name = "gradient" -> <<240, 248, 255>>
      [] OTHER -> White

\* outcomes of the image step of a content slide (lines 258-269, 153-166):
\* download_image returned None; the picture was embedded and the temp file
\* unlinked; add_picture raised and the except of line 268 swallowed it
ImageOutcomes == {"no_image", "embedded", "picture_error"}

\* The slide as add_slide leaves it (lines 192-193, 219-220, 273-274)
NewSlide(slide_index, layout) ==
    [descriptor |-> slide_index, layout |-> layout, fill |-> None,
     title |-> None, body |-> <<>>, picture |-> FALSE]

\* _create_title_slide, lines 190-215
_create_title_slide(d, slide_index) ==
    LET s0 == NewSlide(slide_index, 0)
        s1 == [s0 EXCEPT !.fill = get_background_color(Get(d, "background_color", "blue"))]
    IN IF "title" \notin DOMAIN d
       THEN [slides |-> <<s1>>, raised |-> TRUE, temp |-> {}]      \* KeyError, line 203
       ELSE [slides |-> << [s1 EXCEPT !.title = d.title,
                                      !.body = <<Get(d, "subtitle", <<>>)>>] >>,
             raised |-> FALSE, temp |-> {}]

\* _create_content_slide, lines 217-269
_create_content_slide(d, slide_index, img) ==
    LET s0 == NewSlide(slide_index, 1)
        s1 == [s0 EXCEPT !.fill = get_background_color(Get(d, "background_color", "white"))]
    IN IF "title" \notin DOMAIN d
       THEN [slides |-> <<s1>>, raised |-> TRUE, temp |-> {}]      \* KeyError, line 230
       ELSE [slides |-> << [s1 EXCEPT !.title = d.title,
                                      !.body = Get(d, "content", <<>>),
                                      !.picture = (img = "embedded")] >>,
             raised |-> FALSE,
             temp |-> IF img = "picture_error" THEN {slide_index} ELSE {}]

\* _create_summary_slide, lines 271-308
_create_summary_slide(d, slide_index) ==
    LET s0 == NewSlide(slide_index, 1)
        s1 == [s0 EXCEPT !.fill = get_background_color(Get(d, "background_color", "light_blue"))]
    IN IF "title" \notin DOMAIN d
       THEN [slides |-> <<s1>>, raised |-> TRUE, temp |-> {}]      \* KeyError, line 284
       ELSE [slides |-> << [s1 EXCEPT !.title = d.title,
                                      !.body = Get(d, "content", <<>>)] >>,
             raised |-> FALSE, temp |-> {}]

\* create_slide, lines 179-188: the slides it adds to the presentation, whether
\* it raised, and the temp image files it leaves behind
create_slide(slide_data, slide_index, img) ==
    IF slide_data.t # "obj"
    THEN [slides |-> <<>>, raised |-> TRUE, temp |-> {}]   \* AttributeError, line 181
    ELSE LET slide_type == Get(slide_data.v, "slide_type", "section")
         IN IF slide_type = "title"
            THEN _create_title_slide(slide_data.v, slide_index)
            ELSE IF slide_type = "summary"
                 THEN _create_summary_slide(slide_data.v, slide_index)
                 ELSE _create_content_slide(slide_data.v, slide_index, img)

\* does the descriptor reach the image step of _create_content_slide
ReachesImage(slide_data) ==
    /\ slide_data.t = "obj"
    /\ Get(slide_data.v, "slide_type", "section") \notin {"title", "summary"}
    /\ "title" \in DOMAIN slide_data.v

\* ----------------------------------------------------------------- the form
DefaultSections ==
    << <<"O", "v", "e", "r", "v", "i", "e", "w">>,
       <<"K", "e", "y", " ", "C", "o", "n", "c", "e", "p", "t", "s">>,
       <<"I", "m", "p", "l", "e", "m", "e", "n", "t", "a", "t", "i", "o", "n">>,
       <<"C", "a", "s", "e", " ", "S", "t", "u", "d", "i", "e", "s">>,
       <<"C", "o", "n", "c", "l", "u", "s", "i", "o", "n">> >>

\* str(k) for 1 <= k <= 99
digits(k) ==
    IF k < 10 THEN <<ToString(k)>> ELSE <<ToString(k \div 10), ToString(k % 10)>>

\* f"Section {i+1}" of app.py line 124, k = i+1
SectionName(k) == <<"S", "e", "c", "t", "i", "o", "n", " ">> \o digits(k)

\* what the user types
Topics == { <<>>, <<"a", " ", " ">>, <<"a", " ", "b">> }
Keys == { <<>>,
          <<"k", "k", "k", "k", "k", "k", "k", "k", "k", " ">>,
          <<"k", "k", "k", "k", "k", "k", "k", "k", "k", "k">> }
SectionInputs(i) ==
    { <<>>, <<" ">>, IF i <= Len(DefaultSections) THEN DefaultSections[i] ELSE SectionName(i) }

\* a plausible slip: the section titles are not validated
IsValidWithoutSections(tp, key, sections) ==
    /\ tp # <<>> /\ Len(strip(tp)) >= MinTopicLen
    /\ key # <<>> /\ Len(strip(key)) >= MinKeyLen

\* app.py lines 143-145
is_valid(tp, key, sections) ==
    /\ tp # <<>> /\ Len(strip(tp)) >= MinTopicLen
    /\ key # <<>> /\ Len(strip(key)) >= MinKeyLen
    /\ \A i \in 1..Len(sections) : strip(sections[i]) # <<>>

\* app.py lines 121-126: the section list after the slider is at num_sections
adjust_sections(sections, num_sections) ==
    IF Len(sections) < num_sections
    THEN sections \o [j \in 1..(num_sections - Len(sections)) |-> SectionName(Len(sections) + j)]
    ELSE SubSeq(sections, 1, num_sections)

\* app.py line 152: the disabled= argument of the submit button
submit_disabled_arg(tp, key, sections, gen) == ~is_valid(tp, key, sections) \/ gen

\* app.py lines 161, 165: the download section, and the reset button in it, is rendered
download_shown(pg, path, fs) == pg /\ path # None /\ path # <<>> /\ path \in fs

\* datetime.now().strftime("%Y%m%d_%H%M%S") at clock reading ts
timestamp(ts) == <<"T", ToString(ts)>>

\* what datetime.now() reads when a generation starts
ClockReadings == {1}

\* app.py line 70
output_name(tp, ts) ==
    <<"professional_">> \o replace(tp, " ", "_") \o <<"_">> \o timestamp(ts) \o <<".pptx">>

NoRun ==
    /\ output_filename = None
    /\ llm = [kind |-> "none"]
    /\ presentation_data = None
    /\ slide_i = 0
    /\ doc = <<>>
    /\ render_raised = <<>>
    /\ temp_images = {}

NoExtraction ==
    /\ response = <<>>
    /\ payload = <<>>
    /\ extracted = <<>>
    /\ stage = "none"

\* initialize_session_state (lines 53-61) and the first run of main()
Init ==
    /\ topic = <<>>
    /\ api_key \in Keys
    /\ content_sections = DefaultSections
    /\ presentation_generated = FALSE
    /\ generating = FALSE
    /\ generated_file_path = None
    /\ submit_disabled = submit_disabled_arg(topic, api_key, content_sections, generating)
    /\ reset_shown = FALSE
    /\ error_shown = FALSE
    /\ pc = "idle"
    /\ files = {}
    /\ NoRun
    /\ NoExtraction

\* One run of main() that no button started: the controls are rendered from
\* the new widget values.
Rerun(tp, key, sections) ==
    /\ pc = "idle"
    /\ topic' = tp
    /\ api_key' = key
    /\ content_sections' = sections
    /\ submit_disabled' = submit_disabled_arg(tp, key, sections, generating)
    /\ reset_shown' = download_shown(presentation_generated, generated_file_path, files)
    /\ error_shown' = FALSE
    /\ UNCHANGED <<presentation_generated, generating, generated_file_path, pc, files>>
    /\ UNCHANGED runVars
    /\ UNCHANGED extractVars

EditTopic == \E tp \in Topics : tp # topic /\ Rerun(tp, api_key, content_sections)

EditKey == \E key \in Keys : key # api_key /\ Rerun(topic, key, content_sections)

\* the slider, lines 118-126
SetNumSections ==
    \E n \in MinSections..MaxSections :
        /\ n # Len(content_sections)
        /\ Rerun(topic, api_key, adjust_sections(content_sections, n))

\* a section text input, lines 131-140
EditSection ==
    \E i \in 1..Len(content_sections) : \E s \in SectionInputs(i) :
        /\ s # content_sections[i]
        /\ Rerun(topic, api_key, [content_sections EXCEPT ![i] = s])

\* ------------------------------------------------------------- LLM outcomes
LLMTitle == <<"T">>

\* slide descriptors a parsed response can hold
LLMDescriptors ==
    { Obj([slide_type |-> "title", title |-> LLMTitle, subtitle |-> <<"s">>,
           background_color |-> "magenta"]),
      Obj([slide_type |-> "section", title |-> LLMTitle, content |-> << <<"p">> >>,
           background_color |-> "teal"]),
      Obj([slide_type |-> "summary", title |-> LLMTitle, content |-> << <<"p">> >>,
           background_color |-> "crimson"]),
      Obj([slide_type |-> "summary", content |-> << <<"p">> >>,
           background_color |-> "light_blue"]),
      Obj([title |-> LLMTitle, background_color |-> "dark"]),
      Str(<<"x">>) }

LLMSlideLists == UNION { [1..n -> LLMDescriptors] : n \in 1..MaxLLMSlides }

\* values json.loads can return for the extracted text
ParsedValues ==
    { Num(5),
      Obj([title |-> LLMTitle]),
      Obj([title |-> LLMTitle, slides |-> List(<<>>)]),
      Obj([title |-> LLMTitle, slides |-> Num(5)]) }
    \cup { Obj([title |-> LLMTitle, slides |-> List(l)]) : l \in LLMSlideLists }

\* outcomes of lines 73-102: the API call raised, json.loads raised, or
\* json.loads returned a value
LLMOutcomes ==
    { [kind |-> "raise"], [kind |-> "not_json"] }
    \cup { [kind |-> "json", value |-> v] : v \in ParsedValues }

\* ------------------------------------------------------------ a generation
\* The submit button is clicked: main() runs to line 155 and
\* generate_presentation to line 70.
ClickSubmit ==
    /\ pc = "idle"
    /\ ~submit_disabled
    /\ is_valid(topic, api_key, content_sections)
    /\ \E ts \in ClockReadings : output_filename' = output_name(topic, ts)
    /\ submit_disabled' = submit_disabled_arg(topic, api_key, content_sections, generating)
    /\ generating' = TRUE
    /\ error_shown' = FALSE
    /\ pc' = "llm"
    /\ UNCHANGED <<presentation_generated, generated_file_path, reset_shown, files>>
    /\ UNCHANGED formVars
    /\ UNCHANGED <<llm, presentation_data, slide_i, doc, render_raised, temp_images>>
    /\ UNCHANGED extractVars

\* create_presentation line 327: generate_presentation_content
GenerateContent ==
    /\ pc = "llm"
    /\ \E outcome \in LLMOutcomes :
         LET r == generate_presentation_content(outcome, topic, content_sections)
         IN /\ llm' = outcome
            /\ IF r.raised
               THEN pc' = "raise" /\ UNCHANGED presentation_data
               ELSE pc' = "content" /\ presentation_data' = r.value
    /\ UNCHANGED <<presentation_generated, generating, generated_file_path,
                   submit_disabled, reset_shown, error_shown, files>>
    /\ UNCHANGED formVars
    /\ UNCHANGED <<output_filename, slide_i, doc, render_raised, temp_images>>
    /\ UNCHANGED extractVars

Slides == presentation_data.v.slides

\* generate_presentation_content has returned and its locals are gone;
\* create_powerpoint lines 312-314 open an empty presentation
OpenPresentation ==
    /\ pc = "content"
    /\ llm' = [kind |-> "none"]
    /\ doc' = <<>>
    /\ slide_i' = 0
    /\ pc' = "render"
    /\ UNCHANGED <<presentation_generated, generating, generated_file_path,
                   submit_disabled, reset_shown, error_shown, files>>
    /\ UNCHANGED formVars
    /\ UNCHANGED <<output_filename, presentation_data, render_raised, temp_images>>
    /\ UNCHANGED extractVars

\* create_powerpoint line 317: enumerate() of a value that is no list raises,
\* outside the try of line 318
IterateError ==
    /\ pc = "render"
    /\ Slides.t # "list"
    /\ pc' = "raise"
    /\ UNCHANGED <<presentation_generated, generating, generated_file_path,
                   submit_disabled, reset_shown, error_shown, files>>
    /\ UNCHANGED formVars
    /\ UNCHANGED runVars
    /\ UNCHANGED extractVars

\* create_powerpoint lines 317-321: one iteration of the loop
CreateSlide ==
    /\ pc = "render"
    /\ Slides.t = "list"
    /\ slide_i < Len(Slides.v)
    /\ \E img \in ImageOutcomes :
         LET slide_data == Slides.v[slide_i + 1]
             r == create_slide(slide_data, slide_i, img)
         IN /\ ReachesImage(slide_data) \/ img = "no_image"
            /\ doc' = doc \o r.slides
            /\ render_raised' = Append(render_raised, r.raised)
            /\ temp_images' = temp_images \cup r.temp
    /\ slide_i' = slide_i + 1
    /\ UNCHANGED <<presentation_generated, generating, generated_file_path,
                   submit_disabled, reset_shown, error_shown, files, pc>>
    /\ UNCHANGED formVars
    /\ UNCHANGED <<output_filename, llm, presentation_data>>
    /\ UNCHANGED extractVars

\* create_powerpoint line 323: presentation.save(output_path)
SavePresentation ==
    /\ pc = "render"
    /\ Slides.t = "list"
    /\ slide_i = Len(Slides.v)
    /\ files' = files \cup {output_filename}
    /\ pc' = "saved"
    /\ UNCHANGED <<presentation_generated, generating, generated_file_path,
                   submit_disabled, reset_shown, error_shown>>
    /\ UNCHANGED formVars
    /\ UNCHANGED runVars
    /\ UNCHANGED extractVars

\* presentation.save raises (the disk is full, the path is not writable)
SaveError ==
    /\ pc = "render"
    /\ Slides.t = "list"
    /\ slide_i = Len(Slides.v)
    /\ pc' = "raise"
    /\ UNCHANGED <<presentation_generated, generating, generated_file_path,
                   submit_disabled, reset_shown, error_shown, files>>
    /\ UNCHANGED formVars
    /\ UNCHANGED runVars
    /\ UNCHANGED extractVars

ClearRun ==
    /\ output_filename' = None
    /\ llm' = [kind |-> "none"]
    /\ presentation_data' = None
    /\ slide_i' = 0
    /\ doc' = <<>>
    /\ render_raised' = <<>>
    /\ temp_images' = {}

\* generate_presentation lines 74-78, then main() lines 157-185
GenerationDone ==
    /\ pc = "saved"
    /\ presentation_generated' = TRUE
    /\ generated_file_path' = output_filename
    /\ generating' = FALSE
    /\ reset_shown' = download_shown(TRUE, output_filename, files)
    /\ pc' = "idle"
    /\ ClearRun
    /\ UNCHANGED <<submit_disabled, error_shown, files>>
    /\ UNCHANGED formVars
    /\ UNCHANGED extractVars

\* a plausible slip: the except discards the previous output reference
GenerationFailedDroppingOutput ==
    /\ pc = "raise"
    /\ generating' = FALSE
    /\ error_shown' = TRUE
    /\ presentation_generated' = FALSE
    /\ generated_file_path' = None
    /\ reset_shown' = FALSE
    /\ pc' = "idle"
    /\ ClearRun
    /\ UNCHANGED <<submit_disabled, files>>
    /\ UNCHANGED formVars
    /\ UNCHANGED extractVars

\* generate_presentation lines 80-83, then main() lines 157-185
GenerationFailed ==
    /\ pc = "raise"
    /\ generating' = FALSE
    /\ error_shown' = TRUE
    /\ reset_shown' = download_shown(presentation_generated, generated_file_path, files)
    /\ pc' = "idle"
    /\ ClearRun
    /\ UNCHANGED <<presentation_generated, generated_file_path, submit_disabled, files>>
    /\ UNCHANGED formVars
    /\ UNCHANGED extractVars

\* a plausible slip: the reset also removes the generated file
CreateNewPresentationDeleting ==
    /\ pc = "idle"
    /\ reset_shown
    /\ presentation_generated' = FALSE
    /\ generated_file_path' = None
    /\ files' = files \ {generated_file_path}
    /\ submit_disabled' = submit_disabled_arg(topic, api_key, content_sections, generating)
    /\ reset_shown' = FALSE
    /\ error_shown' = FALSE
    /\ UNCHANGED <<generating, pc>>
    /\ UNCHANGED formVars
    /\ UNCHANGED runVars
    /\ UNCHANGED extractVars

\* the "Create New Presentation" button, lines 182-185, and the run of main()
\* that st.rerun() starts
CreateNewPresentation ==
    /\ pc = "idle"
    /\ reset_shown
    /\ presentation_generated' = FALSE
    /\ generated_file_path' = None
    /\ submit_disabled' = submit_disabled_arg(topic, api_key, content_sections, generating)
    /\ reset_shown' = download_shown(presentation_generated', generated_file_path', files)
    /\ error_shown' = FALSE
    /\ UNCHANGED <<generating, pc, files>>
    /\ UNCHANGED formVars
    /\ UNCHANGED runVars
    /\ UNCHANGED extractVars

Next ==
    \/ EditTopic
    \/ EditKey
    \/ SetNumSections
    \/ EditSection
    \/ ClickSubmit
    \/ GenerateContent
    \/ OpenPresentation
    \/ IterateError
    \/ CreateSlide
    \/ SavePresentation
    \/ SaveError
    \/ GenerationDone
    \/ GenerationFailed
    \/ CreateNewPresentation

Spec == Init /\ [][Next]_vars

\* ------------------------------------------- the extraction, on its own
InnerChars == {"x", Backquote, "{", "}"}

\* JSON objects, from the opening brace to the closing one; the characters
\* between are those of string values and nested objects
Payloads ==
    { <<"{">> \o inner \o <<"}">> :
        inner \in UNION { [1..n -> InnerChars] : n \in 0..MaxInner } }

Wrappers == {"labeled_fence", "unlabeled_fence", "prose", "leading_prose", "trailing_prose"}

LeadingProse == <<"H", "e", "r", "e", ":", "\n">>
TrailingProse == <<"\n", "D", "o", "n", "e", ".">>

\* the response text that carries payload p in wrapper w
Wrap(w, p) ==
    CASE w = "labeled_fence" -> FenceJson \o <<"\n">> \o p \o <<"\n">> \o Fence
      [] w = "unlabeled_fence" -> Fence \o <<"\n">> \o p \o <<"\n">> \o Fence
      [] w = "prose" -> LeadingProse \o p \o TrailingProse
      [] w = "leading_prose" -> LeadingProse \o p
      [] w = "trailing_prose" -> p \o TrailingProse

InitExtract ==
    /\ topic = <<>>
    /\ api_key = <<>>
    /\ content_sections = DefaultSections
    /\ presentation_generated = FALSE
    /\ generating = FALSE
    /\ generated_file_path = None
    /\ submit_disabled = TRUE
    /\ reset_shown = FALSE
    /\ error_shown = FALSE
    /\ pc = "llm"
    /\ files = {}
    /\ NoRun
    /\ payload \in Payloads
    /\ \E w \in Wrappers : response = Wrap(w, payload)
    /\ extracted = <<>>
    /\ stage = "response"

\* ppt_generator.py lines 89-100
ExtractJSON ==
    /\ stage = "response"
    /\ extracted' = clean_json(response)
    /\ stage' = "extracted"
    /\ UNCHANGED <<response, payload>>
    /\ UNCHANGED <<presentation_generated, generating, generated_file_path,
                   submit_disabled, reset_shown, error_shown, files, pc>>
    /\ UNCHANGED formVars
    /\ UNCHANGED runVars

SpecExtract == InitExtract /\ [][ExtractJSON]_vars

\* ------------------------------------------------------------------ claims

\* the outcomes of the LLM call that C1 and C2 are about: the call raised, the
\* text did not parse, the parsed value has no 'slides' key or an empty one
FailedOutcome(o) ==
    \/ o.kind = "raise"
    \/ o.kind = "not_json"
    \/ /\ o.kind = "json"
       /\ \/ o.value.t # "obj"
          \/ "slides" \notin DOMAIN o.value.v
          \/ o.value.v.slides = List(<<>>)

\* C1: generate_presentation_content never raises, and for a failed outcome of
\* the LLM call it returns exactly _create_fallback_content(topic, sections).
C1_FallbackOnFailure ==
    /\ pc = "raise" => llm.kind = "none"
    /\ (pc = "content" /\ FailedOutcome(llm))
          => presentation_data = _create_fallback_content(topic, content_sections)

C1_Witness ==
    /\ pc = "content"
    /\ llm.kind = "json"
    /\ FailedOutcome(llm)
    /\ Len(presentation_data.v.slides.v) = Len(content_sections) + 2

\* C2: the fallback has N+2 descriptors: the title descriptor carrying the
\* topic and the fixed subtitle, one section descriptor per section name in
\* order, and the fixed summary descriptor.
C2_FallbackShape ==
    (pc = "content" /\ FailedOutcome(llm)) =>
        LET s == presentation_data.v.slides.v
            N == Len(content_sections)
        IN /\ Len(s) = N + 2
           /\ s[1].v.slide_type = "title"
           /\ s[1].v.title = topic
           /\ s[1].v.subtitle = <<"Comprehensive Professional Presentation">>
           /\ \A i \in 1..N : /\ s[i + 1].v.slide_type = "section"
                              /\ s[i + 1].v.title = content_sections[i]
           /\ s[N + 2].v.slide_type = "summary"
           /\ s[N + 2].v.title = <<"Conclusion & Recommendations">>

C2_Witness ==
    /\ pc = "content"
    /\ llm.kind = "raise"
    /\ Len(content_sections) = MinSections
    /\ Len(presentation_data.v.slides.v) = MinSections + 2

\* C3: the saved document of a generation for N sections has exactly N+2
\* slides, whichever path produced the descriptors.
C3_SavedSlideCount == pc = "saved" => Len(doc) = Len(content_sections) + 2

NonBlank(s) == \E j \in 1..Len(s) : s[j] \notin Whitespace

\* C4: the submit control is enabled only when the topic has at least 3
\* characters, the API key at least 10, and no section title is blank.
C4_EnabledOnlyWhenValid ==
    ~submit_disabled =>
        /\ Len(topic) >= 3
        /\ Len(api_key) >= 10
        /\ \A i \in 1..Len(content_sections) : NonBlank(content_sections[i])

C4_Witness ==
    /\ pc = "idle"
    /\ ~submit_disabled
    /\ Len(content_sections) = MaxSections

\* C5: whenever the generating flag is true the submit control is disabled.
C5_GeneratingDisablesSubmit == generating => submit_disabled

\* C6: the reset (the only step of an idle session that changes the output
\* reference) sets presentation_generated to False and generated_file_path to
\* None, deletes no file and leaves the section list, the generating flag and
\* the other inputs as they are.
C6_ResetFrame ==
    [][ (/\ pc = "idle" /\ pc' = "idle"
         /\ \/ presentation_generated' # presentation_generated
            \/ generated_file_path' # generated_file_path)
        => /\ presentation_generated' = FALSE
           /\ generated_file_path' = None
           /\ files' = files
           /\ content_sections' = content_sections
           /\ generating' = generating
           /\ topic' = topic
           /\ api_key' = api_key ]_vars

C6_Witness ==
    /\ pc = "idle"
    /\ ~presentation_generated
    /\ generated_file_path = None
    /\ files # {}

\* C7: the string handed to the JSON parser is exactly the JSON object the
\* response text carries.
C7_ExtractionRecoversPayload == stage = "extracted" => extracted = payload

KnownColors == {"blue", "light_blue", "white", "dark", "gradient"}

UnknownColor(d) ==
    /\ d.t = "obj"
    /\ "background_color" \in DOMAIN d.v
    /\ d.v.background_color \notin KnownColors

\* C8: a descriptor with an unrecognized background_color is rendered with the
\* white fill, and the color does not make its rendering raise.
C8_UnknownColorIsWhite ==
    /\ \A k \in 1..Len(doc) :
          UnknownColor(Slides.v[doc[k].descriptor + 1]) => doc[k].fill = <<255, 255, 255>>
    /\ \A i \in 1..Len(render_raised) :
          (UnknownColor(Slides.v[i]) /\ "title" \in DOMAIN Slides.v[i].v)
              => ~render_raised[i]

C8_Witness ==
    /\ Len(doc) = 2
    /\ doc[1].layout = 0 /\ doc[2].layout = 1
    /\ UnknownColor(Slides.v[1]) /\ UnknownColor(Slides.v[2])
    /\ doc[1].fill = <<255, 255, 255>> /\ doc[2].fill = <<255, 255, 255>>

\* C9: the saved document holds exactly the slides of the descriptors whose
\* rendering did not raise, in descriptor order.
C9_OnlySucceededSlides ==
    pc = "saved" =>
        LET ok == {i \in 1..Len(render_raised) : ~render_raised[i]}
        IN /\ Len(doc) = Cardinality(ok)
           /\ \A k \in 1..Len(doc) : (doc[k].descriptor + 1) \in ok
           /\ \A k \in 1..(Len(doc) - 1) : doc[k].descriptor < doc[k + 1].descriptor

SlideType(d) == IF d.t = "obj" /\ "slide_type" \in DOMAIN d.v THEN d.v.slide_type ELSE "<none>"

\* C10: the slide list handed to the rendering step is one title descriptor,
\* one section descriptor per requested section, one summary descriptor.
C10_SlideListShape ==
    pc = "content" =>
        /\ Slides.t = "list"
        /\ Len(Slides.v) = Len(content_sections) + 2
        /\ SlideType(Slides.v[1]) = "title"
        /\ SlideType(Slides.v[Len(Slides.v)]) = "summary"
        /\ \A i \in 2..(Len(Slides.v) - 1) : SlideType(Slides.v[i]) = "section"

\* C11: a generation runs idle -> generating -> done or failed. The flag is
\* true exactly while the generation runs; a successful end sets
\* presentation_generated and stores the new output path; a failed end shows
\* an error and leaves presentation_generated and generated_file_path as they
\* were when the generation started (no step of a running generation changes
\* them).
C11_GenerationLifecycle ==
    [][ /\ (generating' <=> pc' # "idle")
        /\ (pc = "idle" /\ pc' # "idle") => pc' = "llm"
        /\ (pc # "idle" /\ pc' = "idle") => pc \in {"saved", "raise"}
        /\ (pc = "saved" /\ pc' = "idle")
              => /\ presentation_generated' = TRUE
                 /\ generated_file_path' = output_filename
                 /\ generated_file_path' \in files'
                 /\ ~error_shown'
        /\ (pc = "raise" /\ pc' = "idle") => error_shown'
        /\ (pc' # "idle" \/ pc = "raise")
              => /\ presentation_generated' = presentation_generated
                 /\ generated_file_path' = generated_file_path ]_vars

\* a generation failed after an earlier one succeeded: the error is shown and
\* the earlier output is still referenced
C11_Witness ==
    /\ pc = "idle"
    /\ error_shown
    /\ ~generating
    /\ presentation_generated
    /\ generated_file_path # None

\* C12: every content slide that reaches the image step is rendered whatever
\* the fetch did, and no temp image file that download_image created is left
\* once _create_content_slide has returned.
C12_ImagesSwallowedAndCleaned ==
    /\ \A i \in 1..Len(render_raised) :
          ReachesImage(Slides.v[i]) => ~render_raised[i]
    /\ temp_images = {}

====
